---------------------------- MODULE Spec2Model ----------------------------
(***************************************************************************)
(* Model of src/src/primitives.rs: the Tuple value type (kind tag plus     *)
(* four f64 elements), its four constructors, the approximate equality     *)
(* is_equal, and the kind-aware arithmetic add, sub and neg.                *)
(*                                                                         *)
(* f64 is modelled as a binary floating-point format of the same shape as  *)
(* IEEE 754 binary64 (sign, Precision-bit significand, bounded exponent,   *)
(* gradual underflow, signed zeros, infinities, NaN, round to nearest,     *)
(* ties to even), scaled down to Precision significand bits and exponents  *)
(* 0..MaxExp.  The magnitude of a finite value is a natural number of      *)
(* units; one unit stands for 0.000001, so that EPSILON is 10 units.       *)
(***************************************************************************)
EXTENDS Integers, Sequences, FiniteSets

VARIABLES a, b, r, eq, op, args, steps

vars == <<a, b, r, eq, op, args, steps>>

(***************************************************************************)
(* Bounds of the model.                                                    *)
(***************************************************************************)
\* significand bits of the modelled float format (binary64 has 53)
Precision == 3
\* largest exponent of the modelled float format (finite m * 2^e, e <= MaxExp)
MaxExp == 6
\* how many results a run of SpecArith may feed back as operands
MaxSteps == 2

(***************************************************************************)
(* f64                                                                     *)
(***************************************************************************)
RECURSIVE Pow2(_)
Pow2(n) ==
    IF n = 0 THEN 1 ELSE 2 * Pow2(n - 1)

\* the largest finite magnitude of the format
MaxFinite ==
    (Pow2(Precision) - 1) * Pow2(MaxExp)

NaN ==
    [c |-> "nan", s |-> 0, m |-> 0]

Inf(s) ==
    [c |-> "inf", s |-> s, m |-> 0]

\* the finite value (-1)^s * m units
Num(s, m) ==
    [c |-> "num", s |-> s, m |-> m]

\* the literal 0.0
Zero ==
    Num(0, 0)

\* whether the magnitude m is a value of the format
Representable(m) ==
    \E e \in 0..MaxExp : m % Pow2(e) = 0 /\ m \div Pow2(e) < Pow2(Precision)

\* the exponent at which the exact magnitude x is rounded
RECURSIVE ExpOf(_, _)
ExpOf(x, e) ==
    IF x \div Pow2(e) < Pow2(Precision) THEN e ELSE ExpOf(x, e + 1)

\* round the exact magnitude x to the nearest value of the format, ties to
\* the even significand
RoundMag(x) ==
    LET e    == ExpOf(x, 0)
        q    == x \div Pow2(e)
        rem  == x % Pow2(e)
        half == IF e = 0 THEN 0 ELSE Pow2(e - 1)
        up   == rem > half \/ (rem = half /\ rem > 0 /\ q % 2 = 1)
    IN  (IF up THEN q + 1 ELSE q) * Pow2(e)

\* the float nearest to the exact value (-1)^s * x; overflow gives infinity
Round(s, x) ==
    LET m == RoundMag(x)
    IN  IF m > MaxFinite THEN Inf(s) ELSE Num(s, m)

\* the exact value of a finite float, in units
Val(x) ==
    IF x.s = 1 THEN 0 - x.m ELSE x.m

\* x + y on f64
FAdd(x, y) ==
    IF x.c = "nan" \/ y.c = "nan" THEN NaN
    ELSE IF x.c = "inf" /\ y.c = "inf" THEN (IF x.s = y.s THEN x ELSE NaN)
    ELSE IF x.c = "inf" THEN x
    ELSE IF y.c = "inf" THEN y
    ELSE LET z == Val(x) + Val(y)
         IN  IF z = 0 THEN Num(IF x.s = 1 /\ y.s = 1 THEN 1 ELSE 0, 0)
             ELSE IF z < 0 THEN Round(1, 0 - z)
             ELSE Round(0, z)

\* -x on f64
FNeg(x) ==
    IF x.c = "nan" THEN NaN ELSE [x EXCEPT !.s = 1 - x.s]

\* x - y on f64
FSub(x, y) ==
    FAdd(x, FNeg(y))

\* x.abs() on f64
FAbs(x) ==
    IF x.c = "nan" THEN NaN ELSE [x EXCEPT !.s = 0]

\* the place of a non-NaN float in the order of the extended reals
Ord(x) ==
    IF x.c = "inf" THEN (IF x.s = 1 THEN 0 - (MaxFinite + 1) ELSE MaxFinite + 1)
    ELSE Val(x)

\* x < y on f64
FLt(x, y) ==
    x.c # "nan" /\ y.c # "nan" /\ Ord(x) < Ord(y)

\* x == y on f64
FEq(x, y) ==
    x.c # "nan" /\ y.c # "nan" /\ Ord(x) = Ord(y)

(***************************************************************************)
(* TupleKind, Tuple and Option<Tuple>                                      *)
(***************************************************************************)
TupleKind ==
    {"None", "Point", "Vector", "Color"}

Tuple(kind, elements) ==
    [kind |-> kind, elements |-> elements]

Absent ==
    << >>

Some(t) ==
    <<t>>

new(e0, e1, e2, e3) ==
    Tuple("None", <<e0, e1, e2, e3>>)

new_point(e0, e1, e2) ==
    Tuple("Point", <<e0, e1, e2, Zero>>)

\* mutant: the vector constructor keeps the point tag of the code it was
\* copied from
new_vector_as_point(e0, e1, e2) ==
    Tuple("Point", <<e0, e1, e2, Zero>>)

new_vector(e0, e1, e2) ==
    Tuple("Vector", <<e0, e1, e2, Zero>>)

new_color(e0, e1, e2) ==
    Tuple("Color", <<e0, e1, e2, Zero>>)

\* const EPSILON: f64 = 0.00001, in units
EPSILON == 10

\* mutant: the difference is compared without taking its absolute value
is_equal_no_abs(x, y) ==
    FLt(FSub(x, y), Num(0, EPSILON))

\* mutant: the elements are compared with ==
is_equal_exact(x, y) ==
    FEq(x, y)

is_equal(x, y) ==
    FLt(FAbs(FSub(x, y)), Num(0, EPSILON))

\* mutant: the fourth element is left out of the comparison
Tuple_is_equal_three(self, other) ==
    /\ self.kind = other.kind
    /\ is_equal(self.elements[1], other.elements[1])
    /\ is_equal(self.elements[2], other.elements[2])
    /\ is_equal(self.elements[3], other.elements[3])

Tuple_is_equal(self, other) ==
    /\ self.kind = other.kind
    /\ is_equal(self.elements[1], other.elements[1])
    /\ is_equal(self.elements[2], other.elements[2])
    /\ is_equal(self.elements[3], other.elements[3])
    /\ is_equal(self.elements[4], other.elements[4])

\* mutant: || in place of && in the test for two points
add_either_point(self, other) ==
    IF self.kind = "Point" \/ other.kind = "Point"
    THEN Absent
    ELSE LET kind == IF self.kind = "Vector" /\ other.kind = "Vector"
                     THEN "Vector"
                     ELSE "Point"
         IN  Some(Tuple(kind,
                        <<FAdd(self.elements[1], other.elements[1]),
                          FAdd(self.elements[2], other.elements[2]),
                          FAdd(self.elements[3], other.elements[3]),
                          FAdd(self.elements[4], other.elements[4])>>))

\* mutant: the result is a Vector whenever self is one
add_kind_of_self(self, other) ==
    IF self.kind = "Point" /\ other.kind = "Point"
    THEN Absent
    ELSE LET kind == IF self.kind = "Vector"
                     THEN "Vector"
                     ELSE "Point"
         IN  Some(Tuple(kind,
                        <<FAdd(self.elements[1], other.elements[1]),
                          FAdd(self.elements[2], other.elements[2]),
                          FAdd(self.elements[3], other.elements[3]),
                          FAdd(self.elements[4], other.elements[4])>>))

add(self, other) ==
    IF self.kind = "Point" /\ other.kind = "Point"
    THEN Absent
    ELSE LET kind == IF self.kind = "Vector" /\ other.kind = "Vector"
                     THEN "Vector"
                     ELSE "Point"
         IN  Some(Tuple(kind,
                        <<FAdd(self.elements[1], other.elements[1]),
                          FAdd(self.elements[2], other.elements[2]),
                          FAdd(self.elements[3], other.elements[3]),
                          FAdd(self.elements[4], other.elements[4])>>))

\* mutant: the operands of the element differences are exchanged
sub_reversed(self, other) ==
    IF self.kind = "Vector" /\ other.kind = "Point"
    THEN Absent
    ELSE LET kind == IF self.kind = "Point" /\ other.kind = "Vector"
                     THEN "Point"
                     ELSE "Vector"
         IN  Some(Tuple(kind,
                        <<FSub(other.elements[1], self.elements[1]),
                          FSub(other.elements[2], self.elements[2]),
                          FSub(other.elements[3], self.elements[3]),
                          FSub(other.elements[4], self.elements[4])>>))

\* mutant: the fourth difference takes the third element of other
sub_fourth_typo(self, other) ==
    IF self.kind = "Vector" /\ other.kind = "Point"
    THEN Absent
    ELSE LET kind == IF self.kind = "Point" /\ other.kind = "Vector"
                     THEN "Point"
                     ELSE "Vector"
         IN  Some(Tuple(kind,
                        <<FSub(self.elements[1], other.elements[1]),
                          FSub(self.elements[2], other.elements[2]),
                          FSub(self.elements[3], other.elements[3]),
                          FSub(self.elements[4], other.elements[3])>>))

\* mutant: the result is a Vector whatever the operands are
sub_always_vector(self, other) ==
    IF self.kind = "Vector" /\ other.kind = "Point"
    THEN Absent
    ELSE Some(Tuple("Vector",
                    <<FSub(self.elements[1], other.elements[1]),
                      FSub(self.elements[2], other.elements[2]),
                      FSub(self.elements[3], other.elements[3]),
                      FSub(self.elements[4], other.elements[4])>>))

sub(self, other) ==
    IF self.kind = "Vector" /\ other.kind = "Point"
    THEN Absent
    ELSE LET kind == IF self.kind = "Point" /\ other.kind = "Vector"
                     THEN "Point"
                     ELSE "Vector"
         IN  Some(Tuple(kind,
                        <<FSub(self.elements[1], other.elements[1]),
                          FSub(self.elements[2], other.elements[2]),
                          FSub(self.elements[3], other.elements[3]),
                          FSub(self.elements[4], other.elements[4])>>))

\* mutant: the fourth element is copied, not negated
neg_keeps_fourth(self) ==
    Tuple(self.kind,
          <<FNeg(self.elements[1]),
            FNeg(self.elements[2]),
            FNeg(self.elements[3]),
            self.elements[4]>>)

neg(self) ==
    Tuple(self.kind,
          <<FNeg(self.elements[1]),
            FNeg(self.elements[2]),
            FNeg(self.elements[3]),
            FNeg(self.elements[4])>>)

(***************************************************************************)
(* Inputs.  The arguments of one run's constructor calls come from one of  *)
(* three families of f64 values: values around EPSILON, values at the top  *)
(* of the range (where sums round and overflow), and the special values.   *)
(***************************************************************************)
Near ==
    {Num(1, 0), Num(0, 1), Num(0, EPSILON)}

Wide ==
    {Num(0, 12), Num(0, MaxFinite), Num(1, MaxFinite)}

Special ==
    {Num(1, 1), Inf(0), NaN}

Families ==
    {Near, Wide, Special}

\* the tuples the three dedicated constructors build from arguments in V
Dedicated(V) ==
    UNION {{new_point(e0, e1, e2), new_vector(e0, e1, e2), new_color(e0, e1, e2)} :
           e0 \in V, e1 \in V, e2 \in V}

\* the tuples the four constructors build from arguments in V
Constructed(V) ==
    {new(e0, e1, e2, e3) : e0 \in V, e1 \in V, e2 \in V, e3 \in V} \cup Dedicated(V)

(***************************************************************************)
(* The state machine: two constructed operands a and b, the result r of    *)
(* the last add, sub, neg or constructor call, the result eq of the last   *)
(* is_equal, op, the name of the last call, and args, the arguments of the *)
(* last constructor call.                                                  *)
(***************************************************************************)
Init ==
    /\ \E V \in Families : a \in Constructed(V) /\ b \in Constructed(V)
    /\ r = Absent
    /\ eq = FALSE
    /\ op = "init"
    /\ args = << >>
    /\ steps = 0

\* the operands of SpecArith come from the dedicated constructors alone
InitArith ==
    /\ \E V \in Families : a \in Dedicated(V) /\ b \in Dedicated(V)
    /\ r = Absent
    /\ eq = FALSE
    /\ op = "init"
    /\ args = << >>
    /\ steps = 0

\* r = a.add(&b)
Add ==
    /\ r' = add(a, b)
    /\ op' = "add"
    /\ UNCHANGED <<a, b, eq, args, steps>>

\* r = a.sub(&b)
Sub ==
    /\ r' = sub(a, b)
    /\ op' = "sub"
    /\ UNCHANGED <<a, b, eq, args, steps>>

\* r = a.neg()
Neg ==
    /\ r' = Some(neg(a))
    /\ op' = "neg"
    /\ UNCHANGED <<a, b, eq, args, steps>>

\* eq = a.is_equal(&b)
IsEqual ==
    /\ eq' = Tuple_is_equal(a, b)
    /\ op' = "is_equal"
    /\ UNCHANGED <<a, b, r, args, steps>>

\* r = a.add(&b).unwrap().sub(&b)
SubBack ==
    /\ op = "add"
    /\ r # Absent
    /\ r' = sub(r[1], b)
    /\ op' = "add_sub"
    /\ UNCHANGED <<a, b, eq, args, steps>>

Next ==
    \/ Add
    \/ Sub
    \/ Neg
    \/ IsEqual
    \/ SubBack

Spec ==
    Init /\ [][Next]_vars

\* let a = r.unwrap(): a successful result becomes the left operand
Keep ==
    /\ op \in {"add", "sub", "neg"}
    /\ r # Absent
    /\ steps < MaxSteps
    /\ a' = r[1]
    /\ op' = "keep"
    /\ steps' = steps + 1
    /\ UNCHANGED <<b, r, eq, args>>

\* let b = r.unwrap(): a successful result becomes the right operand
KeepOther ==
    /\ op \in {"add", "sub", "neg"}
    /\ r # Absent
    /\ steps < MaxSteps
    /\ b' = r[1]
    /\ op' = "keep"
    /\ steps' = steps + 1
    /\ UNCHANGED <<a, r, eq, args>>

NextArith ==
    \/ Add
    \/ Sub
    \/ Neg
    \/ Keep
    \/ KeepOther

SpecArith ==
    InitArith /\ [][NextArith]_vars


(***************************************************************************)
(* The constructors as calls: SpecNew starts from two zero tuples and      *)
(* calls each constructor on arguments of every family.                    *)
(***************************************************************************)
InitNew ==
    /\ a = new(Zero, Zero, Zero, Zero)
    /\ b = new(Zero, Zero, Zero, Zero)
    /\ r = Absent
    /\ eq = FALSE
    /\ op = "init"
    /\ args = << >>
    /\ steps = 0

\* r = Tuple::new(e0, e1, e2, e3)
New ==
    \E V \in Families : \E e0 \in V, e1 \in V, e2 \in V, e3 \in V :
        /\ args' = <<e0, e1, e2, e3>>
        /\ r' = Some(new(e0, e1, e2, e3))
        /\ op' = "new"
        /\ UNCHANGED <<a, b, eq, steps>>

\* r = Tuple::new_point(e0, e1, e2)
NewPoint ==
    \E V \in Families : \E e0 \in V, e1 \in V, e2 \in V :
        /\ args' = <<e0, e1, e2>>
        /\ r' = Some(new_point(e0, e1, e2))
        /\ op' = "new_point"
        /\ UNCHANGED <<a, b, eq, steps>>

\* r = Tuple::new_vector(e0, e1, e2)
NewVector ==
    \E V \in Families : \E e0 \in V, e1 \in V, e2 \in V :
        /\ args' = <<e0, e1, e2>>
        /\ r' = Some(new_vector(e0, e1, e2))
        /\ op' = "new_vector"
        /\ UNCHANGED <<a, b, eq, steps>>

\* r = Tuple::new_color(e0, e1, e2)
NewColor ==
    \E V \in Families : \E e0 \in V, e1 \in V, e2 \in V :
        /\ args' = <<e0, e1, e2>>
        /\ r' = Some(new_color(e0, e1, e2))
        /\ op' = "new_color"
        /\ UNCHANGED <<a, b, eq, steps>>

NextNew ==
    \/ New
    \/ NewPoint
    \/ NewVector
    \/ NewColor

SpecNew ==
    InitNew /\ [][NextNew]_vars

(***************************************************************************)
(* Vocabulary of the properties.                                           *)
(***************************************************************************)
Indices ==
    1..4

\* x is neither NaN nor infinite
IsFinite(x) ==
    x.c = "num"

\* the exact sum of the finite floats x and y is a value of the format
ExactSum(x, y) ==
    /\ IsFinite(x)
    /\ IsFinite(y)
    /\ LET z == Val(x) + Val(y)
       IN  Representable(IF z < 0 THEN 0 - z ELSE z)

\* the exact difference of the finite floats x and y is a value of the format
ExactDiff(x, y) ==
    /\ IsFinite(x)
    /\ IsFinite(y)
    /\ LET z == Val(x) - Val(y)
       IN  Representable(IF z < 0 THEN 0 - z ELSE z)

\* z is the f64 sum of x and y: the rounded sum, which is the exact one
\* whenever that is a value of the format
IsSumOf(z, x, y) ==
    /\ z = FAdd(x, y)
    /\ ExactSum(x, y) => IsFinite(z) /\ Val(z) = Val(x) + Val(y)

\* z is the f64 difference of x and y
IsDiffOf(z, x, y) ==
    /\ z = FSub(x, y)
    /\ ExactDiff(x, y) => IsFinite(z) /\ Val(z) = Val(x) - Val(y)

\* z is x with its sign flipped
IsNegationOf(z, x) ==
    \/ x.c = "nan" /\ z.c = "nan"
    \/ x.c # "nan" /\ z.c = x.c /\ z.m = x.m /\ z.s # x.s

\* |x - y| < EPSILON on f64
Within(x, y) ==
    FLt(FAbs(FSub(x, y)), Num(0, EPSILON))

\* every element of t is a finite float
AllFinite(t) ==
    \A i \in Indices : IsFinite(t.elements[i])

\* the fourth element of t is 0.0 or -0.0
FourthIsZero(t) ==
    FEq(t.elements[4], Zero)

\* vectors with three equal elements, one for each value around EPSILON
Samples ==
    {new_vector(e, e, e) : e \in Near}

(***************************************************************************)
(* C1: a.add(b) is absent exactly when a and b are both Point; otherwise   *)
(* it is present, its kind is Vector when both are Vector and Point in     *)
(* every other case, and each of its four elements is the f64 sum of the   *)
(* corresponding elements of a and b.                                      *)
(***************************************************************************)
C1_Add ==
    op = "add" =>
        /\ r = Absent <=> (a.kind = "Point" /\ b.kind = "Point")
        /\ r # Absent =>
            /\ r[1].kind = (IF a.kind = "Vector" /\ b.kind = "Vector"
                            THEN "Vector" ELSE "Point")
            /\ \A i \in Indices :
                  IsSumOf(r[1].elements[i], a.elements[i], b.elements[i])

\* a Color plus a None tuple is a Point, with a rounded and an overflowed
\* element
C1_Witness ==
    /\ op = "add"
    /\ a.kind = "Color"
    /\ b.kind = "None"
    /\ r # Absent
    /\ r[1].kind = "Point"
    /\ a.elements[1] = Num(0, 12)
    /\ b.elements[1] = Num(0, MaxFinite)
    /\ r[1].elements[1] = Num(0, MaxFinite)
    /\ a.elements[2] = Num(0, MaxFinite)
    /\ b.elements[2] = Num(0, MaxFinite)
    /\ r[1].elements[2] = Inf(0)

(***************************************************************************)
(* C2: a.sub(b) is absent exactly when a is Vector and b is Point;         *)
(* otherwise it is present, its kind is Point when a is Point and b is     *)
(* Vector and Vector in every other case, and each of its four elements is *)
(* the f64 difference of the corresponding elements of a and b.            *)
(***************************************************************************)
C2_Sub ==
    op = "sub" =>
        /\ r = Absent <=> (a.kind = "Vector" /\ b.kind = "Point")
        /\ r # Absent =>
            /\ r[1].kind = (IF a.kind = "Point" /\ b.kind = "Vector"
                            THEN "Point" ELSE "Vector")
            /\ \A i \in Indices :
                  IsDiffOf(r[1].elements[i], a.elements[i], b.elements[i])

\* a Point minus a Point is a Vector of the element differences
C2_Witness ==
    /\ op = "sub"
    /\ a.kind = "Point"
    /\ b.kind = "Point"
    /\ r # Absent
    /\ r[1].kind = "Vector"
    /\ a.elements[1] = Num(0, 1)
    /\ b.elements[1] = Num(0, EPSILON)
    /\ r[1].elements[1] # Zero

(***************************************************************************)
(* C3: a.is_equal(b) is true exactly when a and b have the same kind and   *)
(* each of the four pairs of corresponding elements has an f64 difference  *)
(* of absolute value strictly below EPSILON.  A Point and a Vector with    *)
(* the same elements are not equal, and two tuples of the same kind whose  *)
(* elements are at most one unit (0.000001) apart are equal.               *)
(***************************************************************************)
C3_IsEqual ==
    op = "is_equal" =>
        /\ eq <=> /\ a.kind = b.kind
                  /\ \A i \in Indices : Within(a.elements[i], b.elements[i])
        /\ (a.kind = "Point" /\ b.kind = "Vector" /\ a.elements = b.elements)
              => ~eq
        /\ (/\ a.kind = b.kind
            /\ AllFinite(a)
            /\ AllFinite(b)
            /\ \A i \in Indices :
                  Val(a.elements[i]) - Val(b.elements[i]) \in {-1, 0, 1})
              => eq

\* two tuples of one kind, one unit apart in an element, compare equal
C3_Witness ==
    /\ op = "is_equal"
    /\ eq
    /\ a.kind = b.kind
    /\ a.elements[1] = Num(0, 1)
    /\ b.elements[1] = Num(1, 0)
    /\ a.elements[2] = b.elements[2]
    /\ a.elements # b.elements

(***************************************************************************)
(* C4: t.neg() always succeeds and returns a tuple of the kind of t whose  *)
(* four elements are the negations of the elements of t.                   *)
(***************************************************************************)
C4_Neg ==
    op = "neg" =>
        /\ r # Absent
        /\ r[1].kind = a.kind
        /\ \A i \in Indices : IsNegationOf(r[1].elements[i], a.elements[i])

\* the negation of a Color with a NaN, an infinite and a finite element
C4_Witness ==
    /\ op = "neg"
    /\ a.kind = "Color"
    /\ a.elements = <<NaN, Inf(0), Num(1, 1), Zero>>
    /\ r = Some(Tuple("Color", <<NaN, Inf(1), Num(0, 1), Num(1, 0)>>))

(***************************************************************************)
(* C5: add is commutative: a.add(b) and b.add(a) are both absent or both   *)
(* present, and when present they have the same kind and the same          *)
(* elements.                                                               *)
(***************************************************************************)
C5_AddCommutes ==
    op = "add" =>
        LET q == add(b, a)
        IN  /\ r = Absent <=> q = Absent
            /\ r # Absent =>
                /\ r[1].kind = q[1].kind
                /\ r[1].elements = q[1].elements

\* a Vector plus a Point, with different elements
C5_Witness ==
    /\ op = "add"
    /\ a.kind = "Vector"
    /\ b.kind = "Point"
    /\ a.elements[1] # b.elements[1]
    /\ r # Absent
    /\ r[1].kind = "Point"
    /\ r = add(b, a)

(***************************************************************************)
(* C6, as claimed: is_equal is reflexive and symmetric: t.is_equal(t) is   *)
(* true for every constructed tuple t, and a.is_equal(b) equals            *)
(* b.is_equal(a).                                                          *)
(***************************************************************************)
C6_ReflexiveSymmetric ==
    op = "is_equal" =>
        /\ a = b => eq
        /\ eq = Tuple_is_equal(b, a)

(***************************************************************************)
(* C6, amended: is_equal is symmetric, and t.is_equal(t) is true exactly   *)
(* for the tuples t whose four elements are all finite: it is false for a  *)
(* tuple with a NaN or an infinite element.                                *)
(***************************************************************************)
C6_ReflexiveOnFinite ==
    op = "is_equal" =>
        /\ a = b => (eq <=> AllFinite(a))
        /\ eq = Tuple_is_equal(b, a)

\* a finite tuple compared with itself
C6_Witness ==
    /\ op = "is_equal"
    /\ a = b
    /\ AllFinite(a)
    /\ a.elements[1] = Num(0, MaxFinite)
    /\ eq

(***************************************************************************)
(* C7: is_equal is not transitive: there are tuples x, y and z of one kind *)
(* with x.is_equal(y) and y.is_equal(z) but not x.is_equal(z).  They are   *)
(* the vectors with all elements -0.0, all elements 0.000001 and all       *)
(* elements EPSILON: whenever is_equal is called on the first two it       *)
(* returns true, and the second is equal to a third that the first is not  *)
(* equal to.                                                               *)
(***************************************************************************)
C7_NotTransitive ==
    (/\ op = "is_equal"
     /\ a = new_vector(Num(1, 0), Num(1, 0), Num(1, 0))
     /\ b = new_vector(Num(0, 1), Num(0, 1), Num(0, 1)))
        => /\ eq
           /\ \E z \in Samples :
                 /\ z.kind = a.kind
                 /\ Tuple_is_equal(b, z)
                 /\ ~Tuple_is_equal(a, z)

\* a.is_equal(b) returned true, and b is equal to a tuple that a is not
C7_Witness ==
    /\ op = "is_equal"
    /\ eq
    /\ a \in Samples
    /\ b \in Samples
    /\ a.elements[1] = Num(1, 0)
    /\ b.elements[1] = Num(0, 1)
    /\ \E z \in Samples : Tuple_is_equal(b, z) /\ ~Tuple_is_equal(a, z)

(***************************************************************************)
(* C8: new(e0, e1, e2, e3) has kind None and the elements e0, e1, e2, e3;  *)
(* new_point, new_vector and new_color have kind Point, Vector and Color   *)
(* and the elements e0, e1, e2, 0.0.                                       *)
(***************************************************************************)
C8_Constructors ==
    /\ op = "new" =>
          r = Some([kind |-> "None", elements |-> args])
    /\ op = "new_point" =>
          r = Some([kind |-> "Point", elements |-> Append(args, Zero)])
    /\ op = "new_vector" =>
          r = Some([kind |-> "Vector", elements |-> Append(args, Zero)])
    /\ op = "new_color" =>
          r = Some([kind |-> "Color", elements |-> Append(args, Zero)])
    /\ op \in {"new", "new_point", "new_vector", "new_color"} =>
          /\ Len(r[1].elements) = 4
          /\ \A i \in 1..Len(args) : r[1].elements[i] = args[i]

\* a Color built from a NaN, an infinity and a finite number
C8_Witness ==
    /\ op = "new_color"
    /\ args = <<NaN, Inf(0), Num(1, 1)>>
    /\ r[1].kind = "Color"
    /\ r[1].elements[4] = Zero

(***************************************************************************)
(* C9: every tuple reached from tuples of new_point, new_vector and        *)
(* new_color by successful add, sub and neg calls has a fourth element     *)
(* equal to 0.                                                             *)
(***************************************************************************)
C9_FourthStaysZero ==
    /\ FourthIsZero(a)
    /\ FourthIsZero(b)
    /\ r # Absent => FourthIsZero(r[1])

\* a result of a call on fed-back results whose fourth element is -0.0
C9_Witness ==
    /\ steps = 2
    /\ op = "sub"
    /\ r # Absent
    /\ r[1].elements[4] = Num(1, 0)
    /\ r[1].elements[1] = NaN

(***************************************************************************)
(* C10, as claimed: for a and b of kinds Point or Vector with a.add(b)     *)
(* present, a.add(b).sub(b) is present and is equal to a under is_equal.   *)
(* The claim is stated here for its plainest inputs, the tuples whose      *)
(* elements are all finite.                                                *)
(***************************************************************************)
C10_SubUndoesAdd ==
    (/\ op = "add_sub"
     /\ a.kind \in {"Point", "Vector"}
     /\ b.kind \in {"Point", "Vector"}
     /\ AllFinite(a)
     /\ AllFinite(b))
        => r # Absent /\ Tuple_is_equal(r[1], a)

(***************************************************************************)
(* C10, amended: for a and b of kinds Point or Vector with a.add(b)        *)
(* present, a.add(b).sub(b) is present and has the kind of a; each of its  *)
(* elements whose sum a[i] + b[i] is finite and exact in f64 equals a[i],  *)
(* so it is equal to a under is_equal when all four sums are.              *)
(***************************************************************************)
C10_SubUndoesExactAdd ==
    (op = "add_sub" /\ a.kind \in {"Point", "Vector"} /\ b.kind \in {"Point", "Vector"})
        => /\ r # Absent
           /\ r[1].kind = a.kind
           /\ \A i \in Indices :
                 ExactSum(a.elements[i], b.elements[i])
                    => FEq(r[1].elements[i], a.elements[i])
           /\ (\A i \in Indices : ExactSum(a.elements[i], b.elements[i]))
                 => Tuple_is_equal(r[1], a)

\* a Point plus a Vector minus the Vector, all sums exact
C10_Witness ==
    /\ op = "add_sub"
    /\ a.kind = "Point"
    /\ b.kind = "Vector"
    /\ a.elements[1] = Num(0, 1)
    /\ b.elements[1] = Num(0, 1)
    /\ \A i \in Indices : ExactSum(a.elements[i], b.elements[i])
    /\ r # Absent
    /\ Tuple_is_equal(r[1], a)

=============================================================================
